---------------------------- MODULE Spec2Model ----------------------------
(***************************************************************************)
(* A model of the sales dashboard script src/dashboard.py: the cached      *)
(* loader/cleaner load_data and the presenter main, which Streamlit runs   *)
(* from top to bottom on every page load and on every change of a filter   *)
(* control.                                                                *)
(*                                                                         *)
(* Representation.  A Python str is a sequence of one-character strings,   *)
(* so that split, strip, replace and the substring test `in` are computed  *)
(* character by character.  A DataFrame is a record [columns, rows]: the   *)
(* sequence of column names and the sequence of rows, a row being a        *)
(* function from column names to cell values.  A float amount of money is  *)
(* an integer number of thousandths (Scale units per currency unit); the   *)
(* amounts of the modelled files are whole cents, so that Revenue * 0.70   *)
(* is exact.  Binary floating-point rounding is not modelled.              *)
(*                                                                         *)
(* Input domain.  The modelled files satisfy the loader's input contract:  *)
(* the six required columns are present, every Order Date is an ISO date   *)
(* text and every Purchase Address holds at least one comma.  A file that  *)
(* breaks the contract makes load_data raise (lines 33 and 41); such files *)
(* are not among the modelled inputs.  The file does not change while the  *)
(* process runs.                                                           *)
(***************************************************************************)
EXTENDS Integers, Sequences, FiniteSets, TLC

(***************************************************************************)
(* Bounds of the model.                                                    *)
(***************************************************************************)
\* longest file built freely from the general row pool
MaxRows == 2
\* number of candidate rows of the product-ranking pool
TopN == 7
\* most fragments concatenated into one Product text
MaxFrags == 2
\* last instant of the wall clock
MaxClock == 1

(***************************************************************************)
(* Python str and list primitives.                                         *)
(***************************************************************************)
Range(s) == {s[i] : i \in DOMAIN s}

MinOf(S) == CHOOSE x \in S : \A y \in S : x <= y

MaxOf(S) == CHOOSE x \in S : \A y \in S : y <= x

\* the characters str.strip() removes by default, among those of the model
Whitespace == {" ", "\t"}

\* s.strip()
Strip(s) ==
    LET keep == {i \in 1..Len(s) : s[i] \notin Whitespace}
    IN  IF keep = {} THEN <<>> ELSE SubSeq(s, MinOf(keep), MaxOf(keep))

\* s.replace(old, new) for one-character old and new
RECURSIVE Replace(_, _, _)
Replace(s, old, new) ==
    IF s = <<>> THEN <<>>
    ELSE <<IF Head(s) = old THEN new ELSE Head(s)>> \o Replace(Tail(s), old, new)

\* s.split(sep) for a one-character sep: n separators give n + 1 tokens
RECURSIVE Split(_, _)
Split(s, sep) ==
    LET hits == {i \in 1..Len(s) : s[i] = sep}
    IN  IF hits = {} THEN <<s>>
        ELSE <<SubSeq(s, 1, MinOf(hits) - 1)>>
                 \o Split(SubSeq(s, MinOf(hits) + 1, Len(s)), sep)

\* sub in s, for str: case-sensitive substring containment
Contains(sub, s) ==
    \E i \in 0..(Len(s) - Len(sub)) : SubSeq(s, i + 1, i + Len(sub)) = sub

\* any(p in s for p in keywords)
AnyIn(keywords, s) == \E k \in 1..Len(keywords) : Contains(keywords[k], s)

\* the characters of the model in code point order
Alphabet == <<"\t", " ", ",", "-", "/", "0", "1", "2", "3", "4", "5", "6", "7", "8", "9", ":", "A", "B", "C", "D", "E", "F", "G", "H", "I", "J", "K", "L", "M", "N", "O", "P", "Q", "R", "S", "T", "U", "V", "W", "X", "Y", "Z", "_", "a", "b", "c", "d", "e", "f", "g", "h", "i", "j", "k", "l", "m", "n", "o", "p", "q", "r", "s", "t", "u", "v", "w", "x", "y", "z">>

Ord(c) == CHOOSE i \in 1..Len(Alphabet) : Alphabet[i] = c

\* a < b for str: lexicographic by code point, a proper prefix first
StrLess(a, b) ==
    \E i \in 1..(Len(b)) :
        /\ i <= Len(a) + 1
        /\ SubSeq(a, 1, i - 1) = SubSeq(b, 1, i - 1)
        /\ \/ i = Len(a) + 1
           \/ i <= Len(a) /\ Ord(a[i]) < Ord(b[i])

Digits == <<"0", "1", "2", "3", "4", "5", "6", "7", "8", "9">>

\* int(s) for a text of decimal digits
RECURSIVE ToInt(_)
ToInt(s) ==
    IF s = <<>> THEN 0
    ELSE 10 * ToInt(SubSeq(s, 1, Len(s) - 1))
           + (CHOOSE d \in 0..9 : Digits[d + 1] = s[Len(s)])

\* pd.to_datetime on an ISO date text "YYYY-MM-DD": the calendar day
ToDatetime(s) ==
    LET parts == Split(s, "-")
    IN  [y |-> ToInt(parts[1]), m |-> ToInt(parts[2]), d |-> ToInt(parts[3])]

\* .dt.to_period('M').dt.to_timestamp(): the first day of the month
MonthStart(date) == [y |-> date.y, m |-> date.m, d |-> 1]

\* stable sort of a sequence: x comes before y when Before(x, y), and elements
\* that neither way come before each other keep their order
StableSort(s, Before(_, _)) ==
    LET Rank(i) == Cardinality({j \in 1..Len(s) :
                       \/ Before(s[j], s[i])
                       \/ j < i /\ ~Before(s[i], s[j])}) + 1
    IN  [k \in 1..Len(s) |-> s[CHOOSE i \in 1..Len(s) : Rank(i) = k]]

(***************************************************************************)
(* DataFrame primitives.                                                   *)
(***************************************************************************)
\* units per currency unit of a float amount: thousandths
Scale == 10 * 10 * 10

EmptyFrame == [columns |-> <<>>, rows |-> <<>>]

\* the sequence of g(s[1]), ..., g(s[Len(s)])
MapSeq(s, g(_)) ==
    LET F[n \in 0..Len(s)] == IF n = 0 THEN <<>> ELSE Append(F[n - 1], g(s[n]))
    IN  F[Len(s)]

\* the row with the cells of the columns cols, the cell of column c under
\* the name f(c)
Rekey(row, cols, f(_)) ==
    LET F[n \in 0..Len(cols)] ==
            IF n = 0 THEN <<>> ELSE F[n - 1] @@ (f(cols[n]) :> row[cols[n]])
    IN  F[Len(cols)]

\* df.columns = [f(c) for c in df.columns], and df.rename(columns=f)
MapColumns(df, f(_)) ==
    [columns |-> MapSeq(df.columns, f),
     rows    |-> MapSeq(df.rows, LAMBDA row : Rekey(row, df.columns, f))]

\* df.drop(name, axis=1, inplace=True)
DropColumn(df, name) ==
    LET left == SelectSeq(df.columns, LAMBDA c : c # name)
    IN  [columns |-> left,
         rows    |-> MapSeq(df.rows, LAMBDA row : Rekey(row, left, LAMBDA c : c))]

\* df[name] = f(row) for every row: replaces the column in place when it
\* exists and appends it as the last column when it does not
SetColumn(df, name, f(_)) ==
    [columns |-> IF name \in Range(df.columns) THEN df.columns
                 ELSE Append(df.columns, name),
     rows    |-> MapSeq(df.rows, LAMBDA row : (name :> f(row)) @@ row)]

\* keep='first' duplicate removal over all columns, order preserved
RECURSIVE DropDuplicateRows(_)
DropDuplicateRows(rows) ==
    IF rows = <<>> THEN <<>>
    ELSE LET init == DropDuplicateRows(SubSeq(rows, 1, Len(rows) - 1))
             last == rows[Len(rows)]
         IN  IF \E i \in 1..Len(init) : init[i] = last THEN init
             ELSE Append(init, last)

\* variant of DropDuplicates: the result of drop_duplicates thrown away
DropDuplicates_discarded(df) == df

\* df.drop_duplicates(inplace=True)
DropDuplicates(df) == [columns |-> df.columns, rows |-> DropDuplicateRows(df.rows)]

\* series.unique(): the distinct values of a column
Unique(df, name) == {df.rows[i][name] : i \in 1..Len(df.rows)}

(***************************************************************************)
(* load_data, lines 14 to 72: the cleaning of the table read from the      *)
(* file.                                                                   *)
(***************************************************************************)
\* column names
Col_Unnamed  == <<"U", "n", "n", "a", "m", "e", "d", ":", "_", "0">>
Col_Date     == <<"D", "a", "t", "e">>
Col_Units    == <<"U", "n", "i", "t", "s", "_", "S", "o", "l", "d">>
Col_Price    == <<"U", "n", "i", "t", "_", "P", "r", "i", "c", "e">>
Col_Revenue  == <<"R", "e", "v", "e", "n", "u", "e">>
Col_Product  == <<"P", "r", "o", "d", "u", "c", "t">>
Col_Address  == <<"P", "u", "r", "c", "h", "a", "s", "e", "_", "A", "d", "d", "r", "e", "s", "s">>
Col_Cost     == <<"C", "o", "s", "t">>
Col_Profit   == <<"P", "r", "o", "f", "i", "t">>
Col_City     == <<"C", "i", "t", "y", "_", "N", "a", "m", "e">>
Col_Region   == <<"R", "e", "g", "i", "o", "n">>
Col_Category == <<"C", "a", "t", "e", "g", "o", "r", "y">>
Col_Month    == <<"M", "o", "n", "t", "h">>

\* line 16: header.strip().replace(' ', '_')
NormalizeHeader(c) == Replace(Strip(c), " ", "_")

\* lines 23-29: rename_dict, a name it does not list is kept
rename_dict(c) ==
    IF c = <<"O", "r", "d", "e", "r", "_", "D", "a", "t", "e">> THEN Col_Date
    ELSE IF c = <<"Q", "u", "a", "n", "t", "i", "t", "y", "_", "O", "r", "d", "e", "r", "e", "d">> THEN Col_Units
    ELSE IF c = <<"P", "r", "i", "c", "e", "_", "E", "a", "c", "h">> THEN Col_Price
    ELSE IF c = <<"S", "a", "l", "e", "s">> THEN Col_Revenue
    ELSE c

\* the assumed cost rate of line 37, 0.70, in hundredths
CostRate == 70

\* line 37: Revenue * 0.70
CostOf(revenue) == (revenue * CostRate) \div 100

\* variant of CityOf: the token taken as it stands
CityOf_unstripped(address) == Split(address, ",")[2]

\* line 41: x.split(',')[1].strip()
CityOf(address) == Strip(Split(address, ",")[2])

\* lines 44-54
get_region(city) ==
    IF city \in {<<"N", "e", "w", " ", "Y", "o", "r", "k", " ", "C", "i", "t", "y">>, <<"B", "o", "s", "t", "o", "n">>} THEN <<"E", "a", "s", "t">>
    ELSE IF city \in {<<"S", "a", "n", " ", "F", "r", "a", "n", "c", "i", "s", "c", "o">>, <<"L", "o", "s", " ", "A", "n", "g", "e", "l", "e", "s">>} THEN <<"W", "e", "s", "t">>
    ELSE IF city \in {<<"D", "a", "l", "l", "a", "s">>, <<"A", "t", "l", "a", "n", "t", "a">>} THEN <<"S", "o", "u", "t", "h">>
    ELSE IF city \in {<<"S", "e", "a", "t", "t", "l", "e">>, <<"P", "o", "r", "t", "l", "a", "n", "d">>} THEN <<"N", "o", "r", "t", "h">>
    ELSE <<"C", "e", "n", "t", "r", "a", "l">>

\* the keyword lists of lines 59, 61 and 63
ElectronicsWords == << <<"L", "a", "p", "t", "o", "p">>, <<"M", "o", "n", "i", "t", "o", "r">>, <<"P", "C">> >>
MobileWords      == << <<"i", "P", "h", "o", "n", "e">>, <<"P", "h", "o", "n", "e">> >>
AccessoryWords   == << <<"C", "a", "b", "l", "e">>, <<"H", "e", "a", "d", "p", "h", "o", "n", "e", "s">>, <<"W", "i", "r", "e", "d">>, <<"C", "h", "a", "r", "g", "e", "r">>, <<"M", "a", "c", "h", "i", "n", "e">> >>

\* variant of get_category: the Accessories rule tried first
get_category_accessories_first(product) ==
    IF AnyIn(AccessoryWords, product) THEN <<"A", "c", "c", "e", "s", "s", "o", "r", "i", "e", "s">>
    ELSE IF AnyIn(ElectronicsWords, product) THEN <<"E", "l", "e", "c", "t", "r", "o", "n", "i", "c", "s">>
    ELSE IF AnyIn(MobileWords, product) THEN <<"M", "o", "b", "i", "l", "e">>
    ELSE <<"O", "t", "h", "e", "r">>

\* lines 58-66
get_category(product) ==
    IF AnyIn(ElectronicsWords, product) THEN <<"E", "l", "e", "c", "t", "r", "o", "n", "i", "c", "s">>
    ELSE IF AnyIn(MobileWords, product) THEN <<"M", "o", "b", "i", "l", "e">>
    ELSE IF AnyIn(AccessoryWords, product) THEN <<"A", "c", "c", "e", "s", "s", "o", "r", "i", "e", "s">>
    ELSE <<"O", "t", "h", "e", "r">>

\* lines 14-20: normalised headers, the index column dropped when present
Standardize(table) ==
    LET named == MapColumns(table, NormalizeHeader)
    IN  IF Col_Unnamed \in Range(named.columns) THEN DropColumn(named, Col_Unnamed)
        ELSE named

\* lines 33-67: the derived columns, in the order the code adds them
Derive(df) ==
    LET d1 == SetColumn(df, Col_Date, LAMBDA r : ToDatetime(r[Col_Date]))
        d2 == SetColumn(d1, Col_Cost, LAMBDA r : CostOf(r[Col_Revenue]))
        d3 == SetColumn(d2, Col_Profit, LAMBDA r : r[Col_Revenue] - r[Col_Cost])
        d4 == SetColumn(d3, Col_City, LAMBDA r : CityOf(r[Col_Address]))
        d5 == SetColumn(d4, Col_Region, LAMBDA r : get_region(r[Col_City]))
    IN  SetColumn(d5, Col_Category, LAMBDA r : get_category(r[Col_Product]))

\* lines 14-72: the DataFrame load_data returns for the table it read
Clean(table) ==
    DropDuplicates(Derive(MapColumns(Standardize(table), rename_dict)))

\* variant of load_data_body: a missing file gives an empty DataFrame
load_data_body_empty(f) ==
    IF ~f.exists THEN [ok |-> TRUE, df |-> EmptyFrame, error |-> TRUE]
    ELSE [ok |-> TRUE, df |-> Clean(f.table), error |-> FALSE]

\* lines 8-72, the body of load_data run on a cache miss: the value returned
\* (ok is FALSE for None) and whether st.error was called
load_data_body(f) ==
    IF ~f.exists THEN [ok |-> FALSE, df |-> EmptyFrame, error |-> TRUE]
    ELSE [ok |-> TRUE, df |-> Clean(f.table), error |-> FALSE]

(***************************************************************************)
(* The input files of the model: sales_data.csv as pd.read_csv returns it. *)
(***************************************************************************)
\* an amount of units and cents
Money(units, cents) == units * Scale + cents * (Scale \div 100)

\* the headers of a file, written with spaces as in the public extract
\* (style 1), already with underscores (style 2), or padded (style 3)
HeaderIn(style, name) ==
    IF style = 1 THEN Replace(name, "_", " ")
    ELSE IF style = 2 THEN name
    ELSE <<" ">> \o Replace(name, "_", " ") \o <<" ", "\t">>

\* one row of the table read from the file; idx is the cell of the unnamed
\* index column, which read_csv calls "Unnamed: 0"
RawRow(style, idx, date, product, qty, price, sales, address) ==
    (HeaderIn(style, Col_Unnamed) :> idx)
      @@ (HeaderIn(style, <<"O", "r", "d", "e", "r", "_", "D", "a", "t", "e">>) :> date)
      @@ (HeaderIn(style, Col_Product) :> product)
      @@ (HeaderIn(style, <<"Q", "u", "a", "n", "t", "i", "t", "y", "_", "O", "r", "d", "e", "r", "e", "d">>) :> qty)
      @@ (HeaderIn(style, <<"P", "r", "i", "c", "e", "_", "E", "a", "c", "h">>) :> price)
      @@ (HeaderIn(style, <<"S", "a", "l", "e", "s">>) :> sales)
      @@ (HeaderIn(style, Col_Address) :> address)

RawColumns(style) ==
    [i \in 1..7 |-> HeaderIn(style,
        << Col_Unnamed, <<"O", "r", "d", "e", "r", "_", "D", "a", "t", "e">>, Col_Product, <<"Q", "u", "a", "n", "t", "i", "t", "y", "_", "O", "r", "d", "e", "r", "e", "d">>,
           <<"P", "r", "i", "c", "e", "_", "E", "a", "c", "h">>, <<"S", "a", "l", "e", "s">>, Col_Address >>[i])]

\* the table of a file with the given rows, with or without the index column
RawTable(style, indexed, rows) ==
    LET full == [columns |-> RawColumns(style), rows |-> rows]
    IN  IF indexed THEN full ELSE DropColumn(full, HeaderIn(style, Col_Unnamed))

MissingFile == [exists |-> FALSE, table |-> EmptyFrame]

FileOf(table) == [exists |-> TRUE, table |-> table]

\* all sequences over S of length lo to hi
SeqsOver(S, lo, hi) == UNION {[1..n -> S] : n \in lo..hi}

\* rows of the general pool: rows 1 and 2 differ in the index cell alone
GenRows(style) ==
    { RawRow(style, 0, <<"2", "0", "1", "9", "-", "0", "4", "-", "1", "9">>, <<"M", "a", "c", "b", "o", "o", "k", " ", "P", "r", "o", " ", "L", "a", "p", "t", "o", "p">>, 1,
             Money(1700, 0), Money(1700, 0), <<"9", "1", "7", " ", "1", "s", "t", " ", "S", "t", ",", " ", "B", "o", "s", "t", "o", "n", ",", " ", "M", "A", " ", "0", "2", "2", "1", "5">>),
      RawRow(style, 1, <<"2", "0", "1", "9", "-", "0", "4", "-", "1", "9">>, <<"M", "a", "c", "b", "o", "o", "k", " ", "P", "r", "o", " ", "L", "a", "p", "t", "o", "p">>, 1,
             Money(1700, 0), Money(1700, 0), <<"9", "1", "7", " ", "1", "s", "t", " ", "S", "t", ",", " ", "B", "o", "s", "t", "o", "n", ",", " ", "M", "A", " ", "0", "2", "2", "1", "5">>),
      RawRow(style, 2, <<"2", "0", "1", "9", "-", "0", "4", "-", "0", "7">>, <<"U", "S", "B", "-", "C", " ", "C", "h", "a", "r", "g", "i", "n", "g", " ", "C", "a", "b", "l", "e">>, 2,
             Money(11, 95), Money(23, 90), <<"4", "4", " ", "P", "i", "n", "e", " ", "S", "t", ",", " ", "A", "u", "s", "t", "i", "n", ",", " ", "T", "X", " ", "7", "3", "3", "0", "1">>),
      RawRow(style, 3, <<"2", "0", "1", "9", "-", "0", "5", "-", "3", "0">>, <<"i", "P", "h", "o", "n", "e">>, 1,
             Money(700, 0), Money(700, 0), <<"1", "2", " ", "E", "l", "m", " ", "S", "t", ",", " ", "B", "o", "s", "t", "o", "n", ",", " ", "M", "A", " ", "0", "2", "2", "1", "5">>) }

\* the general files: written as the public extract is, with the index column
\* and spaced headers (style 1), or without it and with underscores (style 2)
GenFiles ==
    UNION { { FileOf(RawTable(style, style = 1, rows)) :
                rows \in SeqsOver(GenRows(style), 0, MaxRows) } :
            style \in {1, 2} }

\* rows of the product-ranking pool, two cities and two categories: products
\* that occur twice, and summed revenues that tie
TopRow(idx, product, units, cents, address) ==
    RawRow(1, idx, <<"2", "0", "1", "9", "-", "0", "6", "-", "0", "1">>, product, 1, Money(units, cents),
           Money(units, cents), address)

TopPool ==
    << TopRow(0, <<"L", "a", "p", "t", "o", "p">>, 300, 0, <<"1", " ", "M", "a", "i", "n", " ", "S", "t", ",", " ", "S", "e", "a", "t", "t", "l", "e", ",", " ", "W", "A", " ", "9", "8", "1", "0", "1">>),
       TopRow(1, <<"M", "o", "n", "i", "t", "o", "r">>, 200, 0, <<"1", " ", "M", "a", "i", "n", " ", "S", "t", ",", " ", "S", "e", "a", "t", "t", "l", "e", ",", " ", "W", "A", " ", "9", "8", "1", "0", "1">>),
       TopRow(2, <<"P", "h", "o", "n", "e">>, 200, 0, <<"1", " ", "M", "a", "i", "n", " ", "S", "t", ",", " ", "S", "e", "a", "t", "t", "l", "e", ",", " ", "W", "A", " ", "9", "8", "1", "0", "1">>),
       TopRow(3, <<"i", "P", "h", "o", "n", "e">>, 99, 50, <<"1", " ", "M", "a", "i", "n", " ", "S", "t", ",", " ", "S", "e", "a", "t", "t", "l", "e", ",", " ", "W", "A", " ", "9", "8", "1", "0", "1">>),
       TopRow(4, <<"G", "a", "m", "i", "n", "g", " ", "P", "C">>, 50, 0, <<"8", " ", "O", "a", "k", " ", "S", "t", ",", " ", "D", "a", "l", "l", "a", "s", ",", " ", "T", "X", " ", "7", "5", "0", "0", "1">>),
       TopRow(5, <<"F", "l", "i", "p", " ", "P", "h", "o", "n", "e">>, 50, 0, <<"1", " ", "M", "a", "i", "n", " ", "S", "t", ",", " ", "S", "e", "a", "t", "t", "l", "e", ",", " ", "W", "A", " ", "9", "8", "1", "0", "1">>),
       TopRow(6, <<"G", "a", "m", "i", "n", "g", " ", "P", "C">>, 49, 50, <<"1", " ", "M", "a", "i", "n", " ", "S", "t", ",", " ", "S", "e", "a", "t", "t", "l", "e", ",", " ", "W", "A", " ", "9", "8", "1", "0", "1">>),
       TopRow(7, <<"M", "i", "n", "i", " ", "P", "C">>, 400, 25, <<"1", " ", "M", "a", "i", "n", " ", "S", "t", ",", " ", "S", "e", "a", "t", "t", "l", "e", ",", " ", "W", "A", " ", "9", "8", "1", "0", "1">>),
       TopRow(8, <<"F", "l", "i", "p", " ", "P", "h", "o", "n", "e">>, 250, 75, <<"8", " ", "O", "a", "k", " ", "S", "t", ",", " ", "D", "a", "l", "l", "a", "s", ",", " ", "T", "X", " ", "7", "5", "0", "0", "1">>) >>

\* the rows of the pool at the positions of S, in the order of the pool
Pick(pool, S) ==
    LET F[n \in 0..Len(pool)] ==
            IF n = 0 THEN <<>>
            ELSE IF n \in S THEN Append(F[n - 1], pool[n]) ELSE F[n - 1]
    IN  F[Len(pool)]

TopFiles ==
    { FileOf(RawTable(1, TRUE, Pick(TopPool, S))) :
        S \in SUBSET (1..(IF TopN < Len(TopPool) THEN TopN ELSE Len(TopPool))) }

\* Product texts: one to MaxFrags fragments written one after the other, and
\* the two product names of the specification's examples
Fragments == << <<"P">>, <<"C">>, <<"h", "o", "n", "e">>, <<"p", "h", "o", "n", "e">>, <<"i", "P", "h", "o", "n", "e">>, <<"C", "a", "b", "l", "e">> >>

RECURSIVE Flatten(_)
Flatten(ss) == IF ss = <<>> THEN <<>> ELSE Head(ss) \o Flatten(Tail(ss))

ProductTexts ==
    { Flatten(ss) : ss \in SeqsOver(Range(Fragments), 1, MaxFrags) }
      \cup { <<"U", "S", "B", "-", "C", " ", "C", "h", "a", "r", "g", "i", "n", "g", " ", "C", "a", "b", "l", "e">>, <<"2", "7", "i", "n", " ", "4", "K", " ", "M", "o", "n", "i", "t", "o", "r">> }

\* Purchase_Address texts: a street, a comma, a padded city and a tail, and
\* addresses whose first token is the name of a city
Cities ==
    { <<"N", "e", "w", " ", "Y", "o", "r", "k", " ", "C", "i", "t", "y">>, <<"B", "o", "s", "t", "o", "n">>, <<"S", "a", "n", " ", "F", "r", "a", "n", "c", "i", "s", "c", "o">>, <<"L", "o", "s", " ", "A", "n", "g", "e", "l", "e", "s">>,
      <<"D", "a", "l", "l", "a", "s">>, <<"A", "t", "l", "a", "n", "t", "a">>, <<"S", "e", "a", "t", "t", "l", "e">>, <<"P", "o", "r", "t", "l", "a", "n", "d">>, <<"A", "u", "s", "t", "i", "n">>,
      <<"b", "o", "s", "t", "o", "n">>, <<"N", "e", "w", " ", "Y", "o", "r", "k">>, <<>> }

AddressTexts ==
    { <<"9", "1", "7", " ", "1", "s", "t", " ", "S", "t">> \o <<",">> \o pad[1] \o city \o pad[2] \o tail :
        pad \in { << <<>>, <<>> >>, << <<" ">>, <<>> >>, << <<"\t", " ">>, <<" ">> >> },
        city \in Cities,
        tail \in { <<>>, <<",", " ", "M", "A", " ", "0", "2", "2", "1", "5">> } }
      \cup { <<"9", "1", "7", " ", "1", "s", "t", " ", "S", "t", ",", " ", "B", "o", "s", "t", "o", "n", ",", " ", "M", "A", " ", "0", "2", "2", "1", "5">>, <<"4", "4", " ", "P", "i", "n", "e", " ", "S", "t", ",", " ", "A", "u", "s", "t", "i", "n", ",", " ", "T", "X", " ", "7", "3", "3", "0", "1">>,
              <<"B", "o", "s", "t", "o", "n", ",", " ", "D", "a", "l", "l", "a", "s", ",", " ", "T", "X", " ", "7", "5", "0", "0", "1">>, <<"S", "e", "a", "t", "t", "l", "e", ",", "A", "u", "s", "t", "i", "n">>,
              <<"1", " ", "M", "a", "i", "n", " ", "S", "t", ",", " ", "D", "a", "l", "l", "a", "s", " ", "T", "X", ",", " ", "S", "e", "a", "t", "t", "l", "e">> }

\* files of one row: every Product text, and every Purchase_Address text
TextFiles ==
    { FileOf(RawTable(3, FALSE, << RawRow(3, 0, <<"2", "0", "1", "9", "-", "0", "4", "-", "1", "9">>, product, 1,
          Money(10, 0), Money(10, 0), <<"9", "1", "7", " ", "1", "s", "t", " ", "S", "t", ",", " ", "B", "o", "s", "t", "o", "n", ",", " ", "M", "A", " ", "0", "2", "2", "1", "5">>) >>)) :
        product \in ProductTexts }
    \cup
    { FileOf(RawTable(3, FALSE, << RawRow(3, 0, <<"2", "0", "1", "9", "-", "0", "4", "-", "1", "9">>, <<"P", "C">>, 1,
          Money(10, 0), Money(10, 0), address) >>)) :
        address \in AddressTexts }

Files == {MissingFile} \cup GenFiles \cup TopFiles

(***************************************************************************)
(* The state of one Streamlit process serving one session.                 *)
(***************************************************************************)
VARIABLES
    \* sales_data.csv, fixed while the process runs
    file,
    \* the st.cache_data entry of load_data: whether it is present, whether
    \* the cached value is a DataFrame (ok) or None, whether the cached run
    \* called st.error, and the instant it was stored
    cache,
    \* the DataFrame objects: the value held by the cache entry (cached), the
    \* object main holds as df and the object main holds as df_filtered
    heap,
    \* how often pd.read_csv ran
    reads,
    \* the wall clock, counted from the first call of load_data
    now,
    \* the values of the two multiselect controls kept by the session
    widgets,
    \* what the last run of main put on the page
    page,
    \* the outcome of the run before the last one
    prev

vars == <<file, cache, heap, reads, now, widgets, page, prev>>

BlankPage ==
    [outcome |-> "none", error |-> FALSE, controls |-> FALSE,
     region_options |-> {}, category_options |-> {}, warning |-> FALSE,
     metrics |-> <<>>, charts |-> <<>>, top_5_products |-> <<>>]

\* the state of a process that has not run the script yet
Start ==
    /\ cache = [present |-> FALSE, ok |-> FALSE, error |-> FALSE, storedAt |-> 0]
    /\ heap = [cached |-> EmptyFrame, df |-> EmptyFrame, df_filtered |-> EmptyFrame]
    /\ reads = 0
    /\ now = 0
    /\ widgets = [set |-> FALSE, region |-> {}, category |-> {}]
    /\ page = BlankPage
    /\ prev = "none"

Init == file \in Files /\ Start

\* the files that exercise the text rules: one row, any Product text or any
\* Purchase_Address text
InitText == file \in TextFiles /\ Start

(***************************************************************************)
(* load_data under @st.cache_data, lines 5 to 12.                          *)
(***************************************************************************)
\* variant of CacheHit: an entry answers for one instant only
CacheHit_ttl(entry, t) == entry.present /\ t - entry.storedAt < 1

\* line 5: the decorator is given no ttl and no max_entries, so an entry,
\* once stored, answers every later call made at any instant t
CacheHit(entry, t) == entry.present

\* the value a call of load_data returns at instant t and the cache it
\* leaves: the stored value (a copy of it) and the replayed st.error on a
\* hit, the result of the body on a miss
load_data(entry, value, f, t) ==
    IF CacheHit(entry, t)
    THEN [ok |-> entry.ok, df |-> value, error |-> entry.error,
          entry |-> entry, value |-> value, read |-> 0]
    ELSE LET r == load_data_body(f)
         IN  [ok |-> r.ok, df |-> r.df, error |-> r.error,
              entry |-> [present |-> TRUE, ok |-> r.ok, error |-> r.error,
                         storedAt |-> t],
              value |-> r.df, read |-> 1]

(***************************************************************************)
(* main, lines 74 to 149.                                                  *)
(***************************************************************************)
\* variant of InSelection: the mask built with | in place of &
InSelection_either(row, selected_region, selected_category) ==
    row[Col_Region] \in selected_region \/ row[Col_Category] \in selected_category

\* line 97: the rows kept by the boolean mask
\* df["Region"].isin(selected_region) & df["Category"].isin(selected_category)
InSelection(row, selected_region, selected_category) ==
    row[Col_Region] \in selected_region /\ row[Col_Category] \in selected_category

\* line 97: df[mask]
Filter(df, selected_region, selected_category) ==
    [columns |-> df.columns,
     rows    |-> SelectSeq(df.rows,
                    LAMBDA r : InSelection(r, selected_region, selected_category))]

\* variant of FilteredRef: the filter and line 118 applied to df itself
FilteredRef_df == "df"

\* line 97: the object df_filtered names, the new object .copy() returns
FilteredRef == "df_filtered"

\* variant of Empty: the test made on the columns alone
Empty_columns(df) == Len(df.columns) = 0

\* line 99: df.empty, a frame with no row or no column
Empty(df) == Len(df.rows) = 0 \/ Len(df.columns) = 0

\* series.sum()
RECURSIVE SumColumn(_, _)
SumColumn(rows, name) ==
    IF rows = <<>> THEN 0 ELSE Head(rows)[name] + SumColumn(Tail(rows), name)

\* variant of IntOf: the amount rounded to the nearest integer
IntOf_round(x) == (x + Scale \div 2) \div Scale

\* int(x) for a float amount x: truncation toward zero
IntOf(x) == IF x >= 0 THEN x \div Scale ELSE -((-x) \div Scale)

\* lines 104-106
Metrics(df) ==
    [total_revenue    |-> IntOf(SumColumn(df.rows, Col_Revenue)),
     total_profit     |-> IntOf(SumColumn(df.rows, Col_Profit)),
     total_units_sold |-> SumColumn(df.rows, Col_Units)]

\* the texts of a set in ascending order
RECURSIVE Ascending(_)
Ascending(S) ==
    IF S = {} THEN <<>>
    ELSE LET least == CHOOSE x \in S : \A y \in S : ~StrLess(y, x)
         IN  <<least>> \o Ascending(S \ {least})

\* the sum of column name over the rows of each key of keys, in their order
RECURSIVE SumPerKey(_, _, _, _)
SumPerKey(rows, key, name, keys) ==
    IF keys = <<>> THEN <<>>
    ELSE << [key   |-> Head(keys),
             value |-> SumColumn(SelectSeq(rows, LAMBDA r : r[key] = Head(keys)), name)] >>
           \o SumPerKey(rows, key, name, Tail(keys))

\* df.groupby(key)[name].sum(): one entry per key, in ascending key order
GroupSum(df, key, name) == SumPerKey(df.rows, key, name, Ascending(Unique(df, key)))

\* line 140: the number of products kept
TopCount == 5

\* variant of NLargest: the first n entries of the series, as they stand
NLargest_head(series, n) == SubSeq(series, 1, IF n < Len(series) THEN n ELSE Len(series))

\* series.nlargest(n): the n largest values in descending order, equal values
\* in the order of the series (keep='first')
NLargest(series, n) ==
    LET sorted == StableSort(series, LAMBDA a, b : a.value > b.value)
    IN  SubSeq(sorted, 1, IF n < Len(sorted) THEN n ELSE Len(sorted))

\* line 140
Top5Products(df) == NLargest(GroupSum(df, Col_Product, Col_Revenue), TopCount)

\* lines 120-149: the charts in the order they are drawn
AllCharts ==
    << "Monthly Trends", "Revenue by Category", "Revenue Share by Region",
       "Top 5 Products", "Correlation Matrix" >>

\* lines 85-94: the values of the two controls, every option by default
Selection(df, w) ==
    [set      |-> TRUE,
     region   |-> IF w.set THEN w.region ELSE Unique(df, Col_Region),
     category |-> IF w.set THEN w.category ELSE Unique(df, Col_Category)]

\* lines 84-94: the page once the controls are drawn
WithControls(df, error) ==
    [BlankPage EXCEPT !.error = error,
                      !.controls = TRUE,
                      !.region_options = Unique(df, Col_Region),
                      !.category_options = Unique(df, Col_Category)]

\* lines 78 and 97: the objects once df is bound to the value load_data
\* returned and df_filtered to the filtered copy
AfterFilter(h, ld, sel) ==
    [h EXCEPT !.cached = ld.value,
              !.df = ld.df,
              ![FilteredRef] = Filter(ld.df, sel.region, sel.category)]

\* line 118: df_filtered['Month'] = ...
AfterMonth(h) ==
    [h EXCEPT ![FilteredRef] =
        SetColumn(@, Col_Month, LAMBDA r : MonthStart(r[Col_Date]))]

\* lines 99-149: the objects and the page a run leaves, from the objects h
\* after the filter and the page with the controls
Presented(h, shown) ==
    IF Empty(h[FilteredRef])
    THEN \* lines 99-101
         [heap |-> h,
          page |-> [shown EXCEPT !.outcome = "warning", !.warning = TRUE]]
    ELSE [heap |-> AfterMonth(h),
          page |-> [shown EXCEPT
                      !.outcome = "rendered",
                      !.metrics = <<Metrics(h[FilteredRef])>>,
                      !.charts = AllCharts,
                      !.top_5_products = Top5Products(AfterMonth(h)[FilteredRef])]]

\* lines 78-149: what a run leaves when load_data returned ld
Continued(h, ld, w) ==
    IF ~ld.ok
    THEN \* lines 79-81: df is None
         [heap    |-> [h EXCEPT !.cached = ld.value, !.df = EmptyFrame],
          page    |-> [BlankPage EXCEPT !.outcome = "error", !.error = ld.error],
          widgets |-> w, cache |-> ld.entry, read |-> ld.read]
    ELSE Presented(AfterFilter(h, ld, Selection(ld.df, w)),
                   WithControls(ld.df, ld.error))
           @@ [widgets |-> Selection(ld.df, w), cache |-> ld.entry, read |-> ld.read]

\* one run of main with the controls holding w, from the cache entry, the
\* objects h and the file f at instant t: the entry, objects, controls and
\* page it leaves, and the number of times it read the file
main(entry, h, f, t, w) == Continued(h, load_data(entry, h.cached, f, t), w)

\* Streamlit runs the script once, with the controls holding w
Main(w) ==
    \E out \in {main(cache, heap, file, now, w)} :
        /\ cache' = out.cache
        /\ heap' = out.heap
        /\ widgets' = out.widgets
        /\ page' = out.page
        /\ reads' = reads + out.read
        /\ prev' = page.outcome
        /\ UNCHANGED <<file, now>>

\* the script runs with the controls as the session holds them: the first
\* page load, or a rerun
Run == Main(widgets)

\* the user changes the selection of the controls on the page, and the
\* script reruns
Select ==
    /\ page.controls
    /\ \E R \in SUBSET page.region_options, C \in SUBSET page.category_options :
          /\ <<R, C>> # <<widgets.region, widgets.category>>
          /\ Main([set |-> TRUE, region |-> R, category |-> C])

\* time passes between two runs
Tick ==
    /\ cache.present
    /\ now < MaxClock
    /\ now' = now + 1
    /\ UNCHANGED <<file, cache, heap, reads, widgets, page, prev>>

Next == Run \/ Select \/ Tick

Spec == Init /\ [][Next]_vars

SpecText == InitText /\ [][Next]_vars

(***************************************************************************)
(* Properties.  The cleaned collection is the value the cache entry holds, *)
(* heap.cached; after a run that reached the controls, widgets holds the   *)
(* selection that run used and heap.df_filtered the frame it filtered.     *)
(***************************************************************************)
Cleaned == heap.cached

\* the records of the cleaned collection that match the selection
Matching ==
    {i \in 1..Len(Cleaned.rows) :
        /\ Cleaned.rows[i][Col_Region] \in widgets.region
        /\ Cleaned.rows[i][Col_Category] \in widgets.category}

\* a record of the filtered frame without the Month column line 118 adds
Base(row) == [c \in DOMAIN row \ {Col_Month} |-> row[c]]

Kept == {Base(heap.df_filtered.rows[i]) : i \in 1..Len(heap.df_filtered.rows)}

NothingRendered ==
    page.metrics = <<>> /\ page.charts = <<>> /\ page.top_5_products = <<>>

\* C1: after every run that reached the filter, the filtered collection is
\* exactly the records of the cleaned collection whose Region is in the
\* selected Region set and whose Category is in the selected Category set:
\* every matching record is kept, once, and nothing else is.
C1_FilterExact ==
    page.controls =>
        /\ \A i \in 1..Len(Cleaned.rows) : Cleaned.rows[i] \in Kept <=> i \in Matching
        /\ Kept \subseteq Range(Cleaned.rows)
        /\ Len(heap.df_filtered.rows) = Cardinality(Kept)

\* a run kept one record and dropped two others, one for its Category alone
\* and one for its Region alone
C1_Witness ==
    /\ page.controls
    /\ Matching # {}
    /\ \E i \in 1..Len(Cleaned.rows) :
          /\ Cleaned.rows[i][Col_Region] \in widgets.region
          /\ Cleaned.rows[i][Col_Category] \notin widgets.category
    /\ \E i \in 1..Len(Cleaned.rows) :
          /\ Cleaned.rows[i][Col_Region] \notin widgets.region
          /\ Cleaned.rows[i][Col_Category] \in widgets.category

\* C2: a run whose selection matches no record shows the warning and no
\* metric and no chart, and leaves the controls on the page; a run whose
\* selection matches a record shows the metrics and the charts, whatever the
\* run before it showed; an empty Region selection matches nothing.
C2_EmptySelectionWarns ==
    page.controls =>
        /\ Matching = {} =>
              /\ page.outcome = "warning" /\ page.warning /\ NothingRendered
        /\ Matching # {} =>
              /\ page.outcome = "rendered" /\ ~page.warning
              /\ page.metrics # <<>> /\ page.charts = AllCharts
        /\ widgets.region = {} => page.outcome = "warning"

\* the run after a run that showed the warning renders the charts
C2_Witness ==
    /\ prev = "warning"
    /\ page.outcome = "rendered"
    /\ page.charts = AllCharts

\* C3: when the file is missing, every run shows the error message, holds no
\* collection, and ends before the controls, the metrics and the charts; and
\* a file that is there never gives the error.
C3_MissingFileHalts ==
    page.outcome # "none" =>
        /\ ~file.exists =>
              /\ page.outcome = "error" /\ page.error /\ ~cache.ok
              /\ ~page.controls /\ ~page.warning /\ NothingRendered
              /\ heap.df = EmptyFrame /\ ~widgets.set
        /\ file.exists => cache.ok /\ ~page.error /\ page.controls

\* two runs in a row with the file missing
C3_Witness == ~file.exists /\ prev = "error" /\ page.outcome = "error"

\* s is written as some prefix, then w, then some suffix
Occurs(w, s) ==
    \E a \in 0..Len(s), b \in 0..Len(s) :
        /\ a + Len(w) + b = Len(s)
        /\ s = SubSeq(s, 1, a) \o w \o SubSeq(s, Len(s) - b + 1, Len(s))

\* the category rules in their order
CategoryRules ==
    << [label |-> <<"E", "l", "e", "c", "t", "r", "o", "n", "i", "c", "s">>, words |-> { <<"L", "a", "p", "t", "o", "p">>, <<"M", "o", "n", "i", "t", "o", "r">>, <<"P", "C">> }],
       [label |-> <<"M", "o", "b", "i", "l", "e">>, words |-> { <<"i", "P", "h", "o", "n", "e">>, <<"P", "h", "o", "n", "e">> }],
       [label |-> <<"A", "c", "c", "e", "s", "s", "o", "r", "i", "e", "s">>,
        words |-> { <<"C", "a", "b", "l", "e">>, <<"H", "e", "a", "d", "p", "h", "o", "n", "e", "s">>, <<"W", "i", "r", "e", "d">>, <<"C", "h", "a", "r", "g", "e", "r">>, <<"M", "a", "c", "h", "i", "n", "e">> }] >>

\* the rules with a keyword that occurs in the product text
RulesHit(product) ==
    {k \in 1..Len(CategoryRules) : \E w \in CategoryRules[k].words : Occurs(w, product)}

\* C4: the Category of every cleaned record is the label of the earliest rule
\* with a keyword occurring, in that case, in its Product text, and Other
\* when no rule has one; it is one of the four labels; 'USB-C Charging
\* Cable' is Accessories and '27in 4K Monitor' is Electronics.
C4_FirstRuleWins ==
    cache.ok =>
        \A i \in 1..Len(Cleaned.rows) :
            LET product  == Cleaned.rows[i][Col_Product]
                category == Cleaned.rows[i][Col_Category]
            IN  /\ category = IF RulesHit(product) = {} THEN <<"O", "t", "h", "e", "r">>
                              ELSE CategoryRules[MinOf(RulesHit(product))].label
                /\ category \in { <<"E", "l", "e", "c", "t", "r", "o", "n", "i", "c", "s">>, <<"M", "o", "b", "i", "l", "e">>, <<"A", "c", "c", "e", "s", "s", "o", "r", "i", "e", "s">>, <<"O", "t", "h", "e", "r">> }
                /\ product = <<"U", "S", "B", "-", "C", " ", "C", "h", "a", "r", "g", "i", "n", "g", " ", "C", "a", "b", "l", "e">> => category = <<"A", "c", "c", "e", "s", "s", "o", "r", "i", "e", "s">>
                /\ product = <<"2", "7", "i", "n", " ", "4", "K", " ", "M", "o", "n", "i", "t", "o", "r">> => category = <<"E", "l", "e", "c", "t", "r", "o", "n", "i", "c", "s">>

\* a cleaned record whose Product text holds keywords of two rules
C4_Witness ==
    /\ cache.ok
    /\ \E i \in 1..Len(Cleaned.rows) :
          /\ Cardinality(RulesHit(Cleaned.rows[i][Col_Product])) >= 2
          /\ Cleaned.rows[i][Col_Category] = <<"M", "o", "b", "i", "l", "e">>

\* the fixed table of cities
RegionTable ==
    { << <<"N", "e", "w", " ", "Y", "o", "r", "k", " ", "C", "i", "t", "y">>, <<"E", "a", "s", "t">> >>, << <<"B", "o", "s", "t", "o", "n">>, <<"E", "a", "s", "t">> >>,
      << <<"S", "a", "n", " ", "F", "r", "a", "n", "c", "i", "s", "c", "o">>, <<"W", "e", "s", "t">> >>, << <<"L", "o", "s", " ", "A", "n", "g", "e", "l", "e", "s">>, <<"W", "e", "s", "t">> >>,
      << <<"D", "a", "l", "l", "a", "s">>, <<"S", "o", "u", "t", "h">> >>, << <<"A", "t", "l", "a", "n", "t", "a">>, <<"S", "o", "u", "t", "h">> >>,
      << <<"S", "e", "a", "t", "t", "l", "e">>, <<"N", "o", "r", "t", "h">> >>, << <<"P", "o", "r", "t", "l", "a", "n", "d">>, <<"N", "o", "r", "t", "h">> >> }

\* the text between the first comma of address and the next comma, or the
\* end when there is no other: a set of one text, or none without a comma
SecondTokens(address) ==
    { SubSeq(address, i + 1, j - 1) :
        <<i, j>> \in { p \in (1..Len(address)) \X (1..(Len(address) + 1)) :
            /\ p[1] < p[2]
            /\ address[p[1]] = ","
            /\ \A k \in 1..(p[1] - 1) : address[k] # ","
            /\ \A k \in (p[1] + 1)..(p[2] - 1) : address[k] # ","
            /\ p[2] = Len(address) + 1 \/ address[p[2]] = "," } }

\* city is token without the whitespace around it
IsTrimmed(city, token) ==
    \E l \in 0..Len(token), r \in 0..Len(token) :
        /\ l + Len(city) + r = Len(token)
        /\ city = SubSeq(token, l + 1, l + Len(city))
        /\ \A k \in 1..l : token[k] \in {" ", "\t"}
        /\ \A k \in (Len(token) - r + 1)..Len(token) : token[k] \in {" ", "\t"}
        /\ city # <<>> => city[1] \notin {" ", "\t"} /\ city[Len(city)] \notin {" ", "\t"}

\* C5: in every cleaned record, City_Name is the second comma-separated token
\* of Purchase_Address without the whitespace around it, and Region is the
\* region the table gives that very text, Central when the table does not
\* list it; '917 1st St, Boston, MA 02215' gives Boston and East, and
\* '44 Pine St, Austin, TX 73301' gives Central.
C5_CityAndRegion ==
    cache.ok =>
        \A i \in 1..Len(Cleaned.rows) :
            LET address == Cleaned.rows[i][Col_Address]
                city    == Cleaned.rows[i][Col_City]
                region  == Cleaned.rows[i][Col_Region]
            IN  /\ \E token \in SecondTokens(address) : IsTrimmed(city, token)
                /\ \A pair \in RegionTable : city = pair[1] => region = pair[2]
                /\ (\A pair \in RegionTable : city # pair[1]) => region = <<"C", "e", "n", "t", "r", "a", "l">>
                /\ address = <<"9", "1", "7", " ", "1", "s", "t", " ", "S", "t", ",", " ", "B", "o", "s", "t", "o", "n", ",", " ", "M", "A", " ", "0", "2", "2", "1", "5">> =>
                      city = <<"B", "o", "s", "t", "o", "n">> /\ region = <<"E", "a", "s", "t">>
                /\ address = <<"4", "4", " ", "P", "i", "n", "e", " ", "S", "t", ",", " ", "A", "u", "s", "t", "i", "n", ",", " ", "T", "X", " ", "7", "3", "3", "0", "1">> => region = <<"C", "e", "n", "t", "r", "a", "l">>

\* a cleaned record of a listed city whose address pads the city with a tab
\* and goes on after a second comma
C5_Witness ==
    /\ cache.ok
    /\ \E i \in 1..Len(Cleaned.rows) :
          /\ Occurs(<<"\t">>, Cleaned.rows[i][Col_Address])
          /\ Len(Split(Cleaned.rows[i][Col_Address], ",")) >= 3
          /\ Cleaned.rows[i][Col_Region] = <<"W", "e", "s", "t">>

\* the rows of the table read from the file
InputRows == Range(file.table.rows)

\* the cleaned record of one row of the file
CleanRow(raw) == Clean([columns |-> file.table.columns, rows |-> <<raw>>]).rows[1]

NoTwoAlike(rows) == \A i, j \in 1..Len(rows) : rows[i] = rows[j] => i = j

\* C6 as stated: no two cleaned records are alike, and the rows of the file
\* that differ in some column are all kept, so that there are as many cleaned
\* records as there are different rows in the file.
C6_DifferingRowsKept ==
    cache.ok =>
        /\ NoTwoAlike(Cleaned.rows)
        /\ Len(Cleaned.rows) = Cardinality(InputRows)

\* C6 amended: no two cleaned records are alike; the rows of the file whose
\* cleaned records are alike give one record, and the rows whose cleaned
\* records differ in some column are all kept.  Rows that differ in the
\* dropped index column alone are among the former.
C6_NoDuplicateRecords ==
    cache.ok =>
        /\ NoTwoAlike(Cleaned.rows)
        /\ Range(Cleaned.rows) = {CleanRow(raw) : raw \in InputRows}

\* a file of two rows alike in every column is cleaned to one record
C6_Witness ==
    /\ cache.ok
    /\ Len(file.table.rows) = 2
    /\ file.table.rows[1] = file.table.rows[2]
    /\ Len(Cleaned.rows) = 1

\* the sum of a column over the cleaned records at the positions S
RECURSIVE ColumnSum(_, _)
ColumnSum(S, name) ==
    IF S = {} THEN 0
    ELSE LET i == CHOOSE k \in S : TRUE
         IN  Cleaned.rows[i][name] + ColumnSum(S \ {i}, name)

\* n is the amount x without its fraction
Truncates(n, x) == n * Scale <= x /\ x < (n + 1) * Scale

\* C7 as stated: the Total Revenue shown is the sum of the Revenue of the
\* filtered records, and the Total Profit shown is 0.30 times the Total
\* Revenue shown.
C7_TotalsExact ==
    page.outcome = "rendered" =>
        /\ page.metrics[1].total_revenue * Scale = ColumnSum(Matching, Col_Revenue)
        /\ page.metrics[1].total_profit * 100 = page.metrics[1].total_revenue * 30

\* C7 amended: every Cost is 70% of its Revenue; the Total Revenue shown is
\* the sum of the Revenue of the filtered records cut to an integer; the
\* Total Profit shown is the sum of their Profit cut to an integer, and that
\* sum is 0.30 times the sum of their Revenue.
C7_TotalsTruncated ==
    page.outcome = "rendered" =>
        /\ \A i \in Matching :
              Cleaned.rows[i][Col_Cost] * 100 = Cleaned.rows[i][Col_Revenue] * 70
        /\ Truncates(page.metrics[1].total_revenue, ColumnSum(Matching, Col_Revenue))
        /\ Truncates(page.metrics[1].total_profit, ColumnSum(Matching, Col_Profit))
        /\ ColumnSum(Matching, Col_Profit) * 100 = ColumnSum(Matching, Col_Revenue) * 30

\* metrics of two or more records whose Revenue and Profit sums have fractions
C7_Witness ==
    /\ page.outcome = "rendered"
    /\ Cardinality(Matching) >= 2
    /\ ColumnSum(Matching, Col_Revenue) % Scale # 0
    /\ ColumnSum(Matching, Col_Profit) % Scale # 0

\* the products of the filtered records, and the summed Revenue of one
ProductsShown == {Cleaned.rows[i][Col_Product] : i \in Matching}

ProductRevenue(product) ==
    ColumnSum({i \in Matching : Cleaned.rows[i][Col_Product] = product}, Col_Revenue)

\* the entries are products of the filtered records with their summed
\* Revenue, no product twice, at most five, and no product left out has a
\* larger sum than one included
TopEntriesRight(top) ==
    /\ Len(top) <= 5
    /\ \A k \in 1..Len(top) :
          /\ top[k].key \in ProductsShown
          /\ top[k].value = ProductRevenue(top[k].key)
    /\ \A k, l \in 1..Len(top) : top[k].key = top[l].key => k = l
    /\ \A product \in ProductsShown \ {top[k].key : k \in 1..Len(top)} :
          \A k \in 1..Len(top) : ProductRevenue(product) <= top[k].value

\* C8 as stated: the Top-5 entries are right, and each has a strictly larger
\* summed Revenue than the next.
C8_TopStrictlyDescending ==
    page.outcome = "rendered" =>
        /\ TopEntriesRight(page.top_5_products)
        /\ \A k, l \in 1..Len(page.top_5_products) :
              k < l => page.top_5_products[k].value > page.top_5_products[l].value

\* C8 amended: the Top-5 entries are right, and none has a smaller summed
\* Revenue than the next; products with the same sum follow each other.
C8_TopDescending ==
    page.outcome = "rendered" =>
        /\ TopEntriesRight(page.top_5_products)
        /\ \A k, l \in 1..Len(page.top_5_products) :
              k < l => page.top_5_products[k].value >= page.top_5_products[l].value

\* six or more products, of which five are shown and one has rows to sum
C8_Witness ==
    /\ page.outcome = "rendered"
    /\ Cardinality(ProductsShown) > 5
    /\ Len(page.top_5_products) = 5
    /\ Cardinality(Matching) > Cardinality(ProductsShown)

\* C9: the cleaned collection load_data produced stays as it was made, the
\* records and the columns of the cleaning of the file, through every run;
\* and the df of a run that reached the filter is still that collection
\* when the run ends.
C9_CleanedNeverMutated ==
    cache.ok =>
        /\ Cleaned = Clean(file.table)
        /\ page.controls => heap.df = Cleaned

\* a second rendering run in a row, which dropped records and added Month
C9_Witness ==
    /\ prev = "rendered"
    /\ page.outcome = "rendered"
    /\ Len(heap.df_filtered.rows) < Len(Cleaned.rows)
    /\ Col_Month \in Range(heap.df_filtered.columns)
    /\ Col_Month \notin Range(Cleaned.columns)

=============================================================================
